---------------------------- MODULE Spec2Model ----------------------------
(***************************************************************************)
(* Currency normalisation and portfolio metrics of bitcoin-dca-tracker.    *)
(*                                                                         *)
(* Numbers.  The program computes in IEEE doubles.  Here money is an       *)
(* integer count of tenths of a currency unit, a BTC amount is an integer  *)
(* count of coins and an FX rate is an integer count of tenths (11 is the  *)
(* rate 1.1).  Every money input is a multiple of 10 tenths, so every      *)
(* product amount * rate is exact.                                         *)
(*                                                                         *)
(* Optional values.  An optional number (undefined | number) is the empty  *)
(* set or a singleton {n}; an optional string is the string NoStr or the   *)
(* string itself; an optional FX provider is the empty set or {provider}.  *)
(***************************************************************************)
EXTENDS Integers, Sequences, FiniteSets, TLC

VARIABLES purchases, op, args, out

vars == <<purchases, op, args, out>>

-----------------------------------------------------------------------------
(* Bounds of the explored inputs *)

MaxLen == 2

-----------------------------------------------------------------------------
(* Optional values and JavaScript coercions *)

None == {}

Some(x) == {x}

Get(o) == CHOOSE x \in o : TRUE

NoStr == "undefined"

\* truthiness of an optional string: undefined and "" are falsy
TruthyStr(s) == s # NoStr /\ s # ""

\* truthiness of an optional number: undefined and 0 are falsy
TruthyNum(o) == o # None /\ Get(o) # 0

\* a ?? b on optional strings
Coalesce(s, d) == IF s = NoStr THEN d ELSE s

\* a || b on numbers
OrNum(a, b) == IF a # 0 THEN a ELSE b

\* num(x, d): Number(undefined) is NaN, which is replaced by d
num(x, d) == IF x = None THEN d ELSE Get(x)

\* amount * rate, the rate counted in tenths
Times(a, r) == (a * r) \div 10

Abs(x) == IF x < 0 THEN -x ELSE x

RECURSIVE Gcd(_, _)
Gcd(a, b) == IF b = 0 THEN a ELSE Gcd(b, a % b)

\* the number 0 as a quotient
Zero == [n |-> 0, d |-> 1]

\* a / b on numbers: the quotient in lowest terms with a positive
\* denominator; a division by 0 yields NaN (0 over 0) or an Infinity (1 or
\* -1 over 0)
JsDiv(a, b) ==
  IF b = 0 THEN [n |-> IF a > 0 THEN 1 ELSE IF a < 0 THEN -1 ELSE 0, d |-> 0]
  ELSE LET g == Gcd(Abs(a), Abs(b))
           s == IF b < 0 THEN -1 ELSE 1
       IN [n |-> (s * a) \div g, d |-> (s * b) \div g]

\* (a / b) * 100
Percent(a, b) == JsDiv(a * 100, b)

\* purchase dates, as the instants new Date(p.date).getTime() yields
Dates == {1, 2}

-----------------------------------------------------------------------------
(* FX provider: getRate(from, to, date?) -> number | null.  The providers  *)
(* explored answer by date only: one optional rate per date for a dated    *)
(* lookup and one optional rate for the undated lookup.                    *)

DatedRates == {None, Some(11)}

UndatedRates == {None, Some(20)}

Providers == [dated : [Dates -> DatedRates], undated : UndatedRates]

OptProviders == {None} \cup {Some(f) : f \in Providers}

getRate(f, from, to, date) == IF date = None THEN f.undated ELSE f.dated[Get(date)]

\* mutant: the undated rate is preferred to the dated one
LookupUndatedFirst(f, from, to, date) ==
  LET undated == getRate(f, from, to, None)
      first == [from |-> from, to |-> to, date |-> None]
      second == [from |-> from, to |-> to, date |-> Some(date)]
  IN IF undated # None
       THEN [rate |-> undated, calls |-> <<first>>]
       ELSE [rate |-> getRate(f, from, to, Some(date)), calls |-> <<first, second>>]

\* fx.getRate(from, to, date) ?? fx.getRate(from, to), with the lookups made
Lookup(f, from, to, date) ==
  LET dated == getRate(f, from, to, Some(date))
      first == [from |-> from, to |-> to, date |-> Some(date)]
      second == [from |-> from, to |-> to, date |-> None]
  IN IF dated # None
       THEN [rate |-> dated, calls |-> <<first>>]
       ELSE [rate |-> getRate(f, from, to, None), calls |-> <<first, second>>]

-----------------------------------------------------------------------------
(* Results of a call: a returned value or a thrown Error, together with    *)
(* the getRate calls the call made.  The message of an Error is kept as    *)
(* its template text and the values interpolated into it.                  *)

NoMsg == [text |-> "", from |-> "", to |-> "", on |-> {}]

Ok(v, calls) == [ok |-> TRUE, val |-> v, msg |-> NoMsg, calls |-> calls]

Thrown(m, calls) == [ok |-> FALSE, val |-> 0, msg |-> m, calls |-> calls]

FxRequired(from, to) ==
  [text |-> "FX required to convert", from |-> from, to |-> to, on |-> {}]

MissingFx(from, to, date) ==
  [text |-> "Missing FX", from |-> from, to |-> to, on |-> {date}]

-----------------------------------------------------------------------------
(* Purchase records (BitcoinPurchase).  date, amount_btc and price_usd are *)
(* required; the other fields are optional.                                *)

Currencies == {"USD", "EUR"}

OptCurrencies == Currencies \cup {NoStr}

Purchases ==
  [date : Dates,
   amount_btc : {1, 2},
   price_usd : {100, 200},
   fee_usd : {None, Some(0), Some(10)},
   fiat_amount : {None, Some(0), Some(70)},
   fiat_currency : OptCurrencies,
   price_fiat : {None, Some(0), Some(30)},
   fee_fiat : {None, Some(0), Some(20)},
   fee_amount : {None, Some(0), Some(40)},
   fee_currency : OptCurrencies]

\* options of a resolver call (CurrencyOptions)
CurrencyOptions == [fiat : OptCurrencies, fx : OptProviders]

-----------------------------------------------------------------------------
(* Strict resolvers of the chart component *)

\* mutant: a missing provider or rate leaves the amount unconverted
strictConvertLenient(amount, from, target, fx, date) ==
  IF from = target THEN Ok(amount, <<>>)
  ELSE IF fx = None THEN Ok(amount, <<>>)
  ELSE LET l == Lookup(Get(fx), from, target, date)
       IN IF ~TruthyNum(l.rate)
            THEN Ok(amount, l.calls)
            ELSE Ok(Times(amount, Get(l.rate)), l.calls)

\* the conversion tail shared by the three branches of each strict resolver
strictConvert(amount, from, target, fx, date) ==
  IF from = target THEN Ok(amount, <<>>)
  ELSE IF fx = None THEN Thrown(FxRequired(from, target), <<>>)
  ELSE LET l == Lookup(Get(fx), from, target, date)
       IN IF ~TruthyNum(l.rate)
            THEN Thrown(MissingFx(from, target, date), l.calls)
            ELSE Ok(Times(amount, Get(l.rate)), l.calls)

\* mutant: the price_fiat rule is tried before the fiat_amount rule
strictRowCostPriceFiatFirst(p, options) ==
  LET fx == options.fx
      target == Coalesce(options.fiat, "USD")
  IN IF num(p.price_fiat, 0) > 0 /\ TruthyStr(p.fiat_currency)
       THEN strictConvert(p.amount_btc * num(p.price_fiat, 0), p.fiat_currency,
                          target, fx, p.date)
     ELSE IF num(p.fiat_amount, 0) > 0
       THEN IF ~TruthyStr(p.fiat_currency)
              THEN Ok(num(p.fiat_amount, 0), <<>>)
              ELSE strictConvert(num(p.fiat_amount, 0), p.fiat_currency, target, fx, p.date)
     ELSE strictConvert(p.amount_btc * p.price_usd, "USD", target, fx, p.date)

strictRowCostFiatExclFees(p, options) ==
  LET fx == options.fx
      target == Coalesce(options.fiat, "USD")
  IN IF num(p.fiat_amount, 0) > 0
       THEN IF ~TruthyStr(p.fiat_currency)
              THEN Ok(num(p.fiat_amount, 0), <<>>)
              ELSE strictConvert(num(p.fiat_amount, 0), p.fiat_currency, target, fx, p.date)
     ELSE IF num(p.price_fiat, 0) > 0 /\ TruthyStr(p.fiat_currency)
       THEN strictConvert(p.amount_btc * num(p.price_fiat, 0), p.fiat_currency,
                          target, fx, p.date)
     ELSE strictConvert(p.amount_btc * p.price_usd, "USD", target, fx, p.date)

\* mutant: fee_amount is tried before fee_fiat
strictRowFeeAmountFirst(p, options) ==
  LET fx == options.fx
      target == Coalesce(options.fiat, "USD")
  IN IF num(p.fee_amount, 0) > 0 /\ TruthyStr(p.fee_currency)
       THEN strictConvert(num(p.fee_amount, 0), p.fee_currency, target, fx, p.date)
     ELSE IF num(p.fee_fiat, 0) > 0 /\ TruthyStr(p.fiat_currency)
       THEN strictConvert(num(p.fee_fiat, 0), p.fiat_currency, target, fx, p.date)
     ELSE strictConvert(OrNum(num(p.fee_usd, 0), 0), "USD", target, fx, p.date)

strictRowFeeFiat(p, options) ==
  LET fx == options.fx
      target == Coalesce(options.fiat, "USD")
  IN IF num(p.fee_fiat, 0) > 0 /\ TruthyStr(p.fiat_currency)
       THEN strictConvert(num(p.fee_fiat, 0), p.fiat_currency, target, fx, p.date)
     ELSE IF num(p.fee_amount, 0) > 0 /\ TruthyStr(p.fee_currency)
       THEN strictConvert(num(p.fee_amount, 0), p.fee_currency, target, fx, p.date)
     ELSE strictConvert(OrNum(num(p.fee_usd, 0), 0), "USD", target, fx, p.date)

-----------------------------------------------------------------------------
(* Resolvers of the calculation library (aggregate path): they never throw *)

rowCostFiatExclFees(p, options) ==
  LET targetFiat == Coalesce(options.fiat, "USD")
      fx == options.fx
      rowFiat == num(p.fiat_amount,
                     p.amount_btc * OrNum(num(p.price_fiat, 0), p.price_usd))
      from == IF TruthyStr(p.fiat_currency) THEN p.fiat_currency
              ELSE IF TruthyNum(p.price_fiat) THEN p.fiat_currency ELSE "USD"
  IN IF ~TruthyStr(from) \/ from = targetFiat THEN Ok(rowFiat, <<>>)
     ELSE IF fx = None THEN Ok(p.amount_btc * p.price_usd, <<>>)
     ELSE LET l == Lookup(Get(fx), from, targetFiat, p.date)
          IN IF ~TruthyNum(l.rate)
               THEN Ok(p.amount_btc * p.price_usd, l.calls)
               ELSE Ok(Times(rowFiat, Get(l.rate)), l.calls)

rowFeeFiat(p, options) ==
  LET targetFiat == Coalesce(options.fiat, "USD")
      fx == options.fx
      from == IF TruthyStr(p.fee_currency) THEN p.fee_currency
              ELSE Coalesce(p.fiat_currency, "USD")
      fee == num(p.fee_fiat, num(p.fee_usd, 0))
  IN IF fee = 0 THEN Ok(0, <<>>)
     ELSE IF from = targetFiat THEN Ok(fee, <<>>)
     ELSE IF fx = None THEN Ok(num(p.fee_usd, 0), <<>>)
     ELSE LET l == Lookup(Get(fx), from, targetFiat, p.date)
          IN IF ~TruthyNum(l.rate)
               THEN Ok(num(p.fee_usd, 0), l.calls)
               ELSE Ok(Times(fee, Get(l.rate)), l.calls)

\* Helper of the calculation library: strict, throws when no rate resolves
convertPriceToTarget(price, priceCur, target, fx, date) ==
  IF priceCur = target THEN Ok(price, <<>>)
  ELSE IF fx = None THEN Thrown(FxRequired(priceCur, target), <<>>)
  ELSE LET l == Lookup(Get(fx), priceCur, target, date)
       IN IF ~TruthyNum(l.rate)
            THEN Thrown(MissingFx(priceCur, target, date), l.calls)
            ELSE Ok(Times(price, Get(l.rate)), l.calls)

-----------------------------------------------------------------------------
(* Sequences: the stable sort by date and the reduce sums *)

RECURSIVE InsertByDateBeforeEqual(_, _)
\* mutant: p goes before the elements of its own date
InsertByDateBeforeEqual(s, p) ==
  IF s = <<>> THEN <<p>>
  ELSE IF Head(s).date < p.date
    THEN <<Head(s)>> \o InsertByDateBeforeEqual(Tail(s), p)
  ELSE <<p>> \o s

RECURSIVE InsertByDate(_, _)
\* p goes after every element whose date is not later (stable)
InsertByDate(s, p) ==
  IF s = <<>> THEN <<p>>
  ELSE IF Head(s).date <= p.date THEN <<Head(s)>> \o InsertByDate(Tail(s), p)
  ELSE <<p>> \o s

\* mutant: the purchases are taken in their input order
SortByDateKeepInput(s) == s

RECURSIVE SortByDate(_)
\* [...purchases].sort((a, b) => time(a.date) - time(b.date))
SortByDate(s) ==
  IF s = <<>> THEN <<>>
  ELSE InsertByDate(SortByDate(SubSeq(s, 1, Len(s) - 1)), s[Len(s)])

RECURSIVE SumSeq(_)
SumSeq(s) == IF s = <<>> THEN 0 ELSE Head(s) + SumSeq(Tail(s))

-----------------------------------------------------------------------------
(* calculatePortfolioMetrics *)

RECURSIVE KeysInOrder(_)
\* the keys of an object filled from the sequence ks, in insertion order
KeysInOrder(ks) ==
  IF ks = <<>> THEN <<>>
  ELSE LET before == KeysInOrder(SubSeq(ks, 1, Len(ks) - 1))
           k == ks[Len(ks)]
       IN IF \E i \in 1..Len(before) : before[i] = k THEN before
          ELSE Append(before, k)

\* the accumulated value of key k: the sum of vals over the rows keyed k
SumWhere(keys, vals, k) ==
  SumSeq([i \in 1..Len(keys) |-> IF keys[i] = k THEN vals[i] ELSE 0])

\* mutant: a later value equal to the largest so far replaces it
ArgFirstMaxOrLater(v) ==
  CHOOSE i \in 1..Len(v) :
    /\ \A j \in 1..Len(v) : v[j] <= v[i]
    /\ \A j \in (i + 1)..Len(v) : v[j] < v[i]

\* reduce((m, c) => c > m ? c : m): the first of the largest values
ArgFirstMax(v) ==
  CHOOSE i \in 1..Len(v) :
    /\ \A j \in 1..Len(v) : v[j] <= v[i]
    /\ \A j \in 1..(i - 1) : v[j] < v[i]

\* reduce((m, c) => c < m ? c : m): the first of the smallest values
ArgFirstMin(v) ==
  CHOOSE i \in 1..Len(v) :
    /\ \A j \in 1..Len(v) : v[j] >= v[i]
    /\ \A j \in 1..(i - 1) : v[j] > v[i]

\* reduce((a, b) => counts[a] > counts[b] ? a : b): the last of the largest
ArgLastMax(v) ==
  CHOOSE i \in 1..Len(v) :
    /\ \A j \in 1..Len(v) : v[j] <= v[i]
    /\ \A j \in (i + 1)..Len(v) : v[j] < v[i]

\* p.fiat_currency || p.currency_sent || 'USD'
recordCurrency(p) ==
  IF TruthyStr(p.fiat_currency) THEN p.fiat_currency
  ELSE IF TruthyStr(p.currency_sent) THEN p.currency_sent
  ELSE "USD"

\* mutant: a purchase without exchange is Unknown whatever its description
exchangeKeyNoDescription(p) == IF TruthyStr(p.exchange) THEN p.exchange ELSE "Unknown"

\* p.exchange || p.description || 'Unknown'
exchangeKey(p) ==
  IF TruthyStr(p.exchange) THEN p.exchange
  ELSE IF TruthyStr(p.description) THEN p.description
  ELSE "Unknown"

\* p.type || 'Purchase'
typeKey(p) == IF TruthyStr(p.type) THEN p.type ELSE "Purchase"

\* total > 0 ? cost / total : 0
averagePrice(cost, totalBTC) == IF totalBTC > 0 THEN JsDiv(cost, totalBTC) ELSE Zero

\* mutant: the percentage is computed whatever its denominator
guardedPercentUnguarded(part, whole) == Percent(part, whole)

\* whole > 0 ? (part / whole) * 100 : 0
guardedPercent(part, whole) == IF whole > 0 THEN Percent(part, whole) ELSE Zero

\* mutant: the effective average is reported under either basis
averageCostBasisEffective(basis, execution, effective) == effective

\* options?.basis === 'execution' ? averageExecutionPrice : averageEffectiveCostBasis
averageCostBasis(basis, execution, effective) ==
  IF basis = "execution" THEN execution ELSE effective

\* mutant: fees are counted in under either basis
totalInvestedWithFees(basis, cost, fees) == cost + fees

\* options?.basis === 'execution' ? totalCostFiatExclFees : totalInvestedFiat
totalInvested(basis, cost, fees) == IF basis = "execution" THEN cost ELSE cost + fees

\* mutant: the currency of the earliest purchase is the primary one
primaryFiatCurrencyOfFirst(sorted, costs, targetFiat) ==
  IF Len(sorted) = 0 THEN targetFiat ELSE recordCurrency(sorted[1])

\* the map fiat currency -> summed cost, and the key of its first largest entry
primaryFiatCurrency(sorted, costs, targetFiat) ==
  LET curs == [i \in 1..Len(sorted) |-> recordCurrency(sorted[i])]
      keys == KeysInOrder(curs)
      fiatMap == [i \in 1..Len(keys) |-> SumWhere(curs, costs, keys[i])]
  IN IF Len(keys) = 0 THEN targetFiat ELSE keys[ArgFirstMax(fiatMap)]

exchangeBreakdown(sorted, costs) ==
  LET exs == [i \in 1..Len(sorted) |-> exchangeKey(sorted[i])]
      btcs == [i \in 1..Len(sorted) |-> sorted[i].amount_btc]
      ones == [i \in 1..Len(sorted) |-> 1]
  IN [k \in {exs[i] : i \in 1..Len(sorted)} |->
        [count |-> SumWhere(exs, ones, k),
         totalBTC |-> SumWhere(exs, btcs, k),
         totalFiat |-> SumWhere(exs, costs, k),
         avgPrice |-> averagePrice(SumWhere(exs, costs, k), SumWhere(exs, btcs, k))]]

transactionTypeBreakdown(sorted) ==
  LET types == [i \in 1..Len(sorted) |-> typeKey(sorted[i])]
      ones == [i \in 1..Len(sorted) |-> 1]
  IN [k \in {types[i] : i \in 1..Len(sorted)} |-> SumWhere(types, ones, k)]

currencyBreakdown(sorted, costs) ==
  LET curs == [i \in 1..Len(sorted) |-> recordCurrency(sorted[i])]
      ones == [i \in 1..Len(sorted) |-> 1]
  IN [k \in {curs[i] : i \in 1..Len(sorted)} |->
        [totalAmount |-> SumWhere(curs, costs, k),
         purchaseCount |-> SumWhere(curs, ones, k)]]

\* the timezone named most often, null (NoStr) when no row names one
timezoneMostUsed(sorted) ==
  LET timezones == SelectSeq([i \in 1..Len(sorted) |-> sorted[i].timezone], TruthyStr)
      keys == KeysInOrder(timezones)
      ones == [i \in 1..Len(timezones) |-> 1]
      counts == [i \in 1..Len(keys) |-> SumWhere(timezones, ones, keys[i])]
  IN IF Len(keys) > 0 THEN keys[ArgLastMax(counts)] ELSE NoStr

\* mutant: the primary currency of the empty portfolio is always USD
ZeroSnapshotUsd(targetFiat) ==
  [totalBTC |-> 0, totalInvested |-> 0, averageCostBasis |-> Zero,
   currentValue |-> 0, unrealizedPnL |-> 0, unrealizedPnLPercent |-> Zero,
   totalFees |-> 0, purchaseCount |-> 0, firstPurchaseDate |-> None,
   lastPurchaseDate |-> None, totalFiatAmount |-> 0,
   primaryFiatCurrency |-> "USD", averageEffectivePrice |-> Zero,
   feeAsPercentOfInvestment |-> Zero, exchangeBreakdown |-> <<>>,
   transactionTypeBreakdown |-> <<>>, currencyBreakdown |-> <<>>,
   hasTransactionHashes |-> FALSE, hasAddresses |-> FALSE,
   timezoneMostUsed |-> NoStr,
   largestPurchase |-> [amount |-> 0, date |-> None, price |-> 0],
   smallestPurchase |-> [amount |-> 0, date |-> None, price |-> 0],
   largestPurchaseBTC |-> [amountBTC |-> 0, date |-> None],
   smallestPurchaseBTC |-> [amountBTC |-> 0, date |-> None],
   largestPurchaseFiat |-> [amountFiat |-> 0, date |-> None],
   smallestPurchaseFiat |-> [amountFiat |-> 0, date |-> None],
   averageExecutionPrice |-> Zero, averageEffectiveCostBasis |-> Zero,
   targetFiat |-> targetFiat]

\* the snapshot of the empty portfolio; a date '' is None, an empty object
\* is the empty function
ZeroSnapshot(targetFiat) ==
  [totalBTC |-> 0, totalInvested |-> 0, averageCostBasis |-> Zero,
   currentValue |-> 0, unrealizedPnL |-> 0, unrealizedPnLPercent |-> Zero,
   totalFees |-> 0, purchaseCount |-> 0, firstPurchaseDate |-> None,
   lastPurchaseDate |-> None, totalFiatAmount |-> 0,
   primaryFiatCurrency |-> targetFiat, averageEffectivePrice |-> Zero,
   feeAsPercentOfInvestment |-> Zero, exchangeBreakdown |-> <<>>,
   transactionTypeBreakdown |-> <<>>, currencyBreakdown |-> <<>>,
   hasTransactionHashes |-> FALSE, hasAddresses |-> FALSE,
   timezoneMostUsed |-> NoStr,
   largestPurchase |-> [amount |-> 0, date |-> None, price |-> 0],
   smallestPurchase |-> [amount |-> 0, date |-> None, price |-> 0],
   largestPurchaseBTC |-> [amountBTC |-> 0, date |-> None],
   smallestPurchaseBTC |-> [amountBTC |-> 0, date |-> None],
   largestPurchaseFiat |-> [amountFiat |-> 0, date |-> None],
   smallestPurchaseFiat |-> [amountFiat |-> 0, date |-> None],
   averageExecutionPrice |-> Zero, averageEffectiveCostBasis |-> Zero,
   targetFiat |-> targetFiat]

\* sortedPurchases[sortedPurchases.length - 1]?.date, of a non-empty list
valuationDate(sortedPurchases) == sortedPurchases[Len(sortedPurchases)].date

calculatePortfolioMetrics(ps, currentBTCPrice, options) ==
  LET targetFiat == Coalesce(options.fiat, "USD")
      priceCur == Coalesce(options.currentPriceCurrency, "USD")
      sortedPurchases == SortByDate(ps)
      n == Len(sortedPurchases)
      btcs == [i \in 1..n |-> sortedPurchases[i].amount_btc]
      costs == [i \in 1..n |-> rowCostFiatExclFees(sortedPurchases[i], options).val]
      totalBTC == SumSeq(btcs)
      totalCostFiatExclFees == SumSeq(costs)
      totalFeesFiat ==
        SumSeq([i \in 1..n |-> rowFeeFiat(sortedPurchases[i], options).val])
      totalInvestedFiat == totalCostFiatExclFees + totalFeesFiat
      averageExecutionPrice == averagePrice(totalCostFiatExclFees, totalBTC)
      averageEffectiveCostBasis ==
        averagePrice(totalCostFiatExclFees + totalFeesFiat, totalBTC)
      currentPriceFiat ==
        convertPriceToTarget(currentBTCPrice, priceCur, targetFiat, options.fx,
                             valuationDate(sortedPurchases))
      currentValue == totalBTC * currentPriceFiat.val
      invested == totalInvested(options.basis, totalCostFiatExclFees, totalFeesFiat)
      unrealizedPnL == currentValue - invested
      purchaseAmounts ==
        [i \in 1..n |->
           [amount |-> sortedPurchases[i].amount_btc,
            date |-> Some(sortedPurchases[i].date),
            price |-> OrNum(num(sortedPurchases[i].effective_price, 0),
                            sortedPurchases[i].price_usd)]]
      byBTC == [i \in 1..n |-> [amountBTC |-> btcs[i],
                                date |-> Some(sortedPurchases[i].date)]]
      byFiat == [i \in 1..n |-> [amountFiat |-> costs[i],
                                 date |-> Some(sortedPurchases[i].date)]]
  IN IF Len(ps) = 0 THEN Ok(ZeroSnapshot(targetFiat), <<>>)
     ELSE IF ~currentPriceFiat.ok THEN Thrown(currentPriceFiat.msg, <<>>)
     ELSE Ok([totalBTC |-> totalBTC,
              totalInvested |-> invested,
              averageCostBasis |-> averageCostBasis(options.basis, averageExecutionPrice,
                                                    averageEffectiveCostBasis),
              currentValue |-> currentValue,
              unrealizedPnL |-> unrealizedPnL,
              unrealizedPnLPercent |-> guardedPercent(unrealizedPnL, invested),
              totalFees |-> totalFeesFiat,
              purchaseCount |-> Len(ps),
              firstPurchaseDate |-> Some(sortedPurchases[1].date),
              lastPurchaseDate |-> Some(sortedPurchases[n].date),
              totalFiatAmount |-> totalCostFiatExclFees,
              primaryFiatCurrency |->
                primaryFiatCurrency(sortedPurchases, costs, targetFiat),
              averageEffectivePrice |-> averageEffectiveCostBasis,
              feeAsPercentOfInvestment |-> guardedPercent(totalFeesFiat, totalInvestedFiat),
              exchangeBreakdown |-> exchangeBreakdown(sortedPurchases, costs),
              transactionTypeBreakdown |-> transactionTypeBreakdown(sortedPurchases),
              currencyBreakdown |-> currencyBreakdown(sortedPurchases, costs),
              hasTransactionHashes |->
                \E i \in 1..n : TruthyStr(sortedPurchases[i].transaction_hash),
              hasAddresses |-> \E i \in 1..n : TruthyStr(sortedPurchases[i].address),
              timezoneMostUsed |-> timezoneMostUsed(sortedPurchases),
              largestPurchase |-> purchaseAmounts[ArgFirstMax(btcs)],
              smallestPurchase |-> purchaseAmounts[ArgFirstMin(btcs)],
              largestPurchaseBTC |-> byBTC[ArgFirstMax(btcs)],
              smallestPurchaseBTC |-> byBTC[ArgFirstMin(btcs)],
              largestPurchaseFiat |-> byFiat[ArgFirstMax(costs)],
              smallestPurchaseFiat |-> byFiat[ArgFirstMin(costs)],
              averageExecutionPrice |-> averageExecutionPrice,
              averageEffectiveCostBasis |-> averageEffectiveCostBasis,
              targetFiat |-> targetFiat], <<>>)

-----------------------------------------------------------------------------
(* calculateDCAPerformance *)

HistRequired ==
  [text |-> "getHistoricalPrice required for markToMarket", from |-> "", to |-> "",
   on |-> {}]

\* mutant: without a historical-price function the current price is used
priceForPointDefaulting(p, currentBTCPrice, options) ==
  LET mode == Coalesce(options.mode, "toDate")
      getHist == options.getHistoricalPrice
      targetFiat == Coalesce(options.fiat, "USD")
      priceCur == Coalesce(options.currentPriceCurrency, "USD")
  IN IF mode = "markToMarket" /\ getHist # None
       THEN Ok(Get(getHist)[p.date], <<>>)
       ELSE convertPriceToTarget(currentBTCPrice, priceCur, targetFiat, options.fx, p.date)

\* mutant: mark-to-market values every point at the current price
priceForPointToday(p, currentBTCPrice, options) ==
  LET mode == Coalesce(options.mode, "toDate")
      getHist == options.getHistoricalPrice
      targetFiat == Coalesce(options.fiat, "USD")
      priceCur == Coalesce(options.currentPriceCurrency, "USD")
  IN IF mode = "markToMarket"
       THEN IF getHist = None THEN Thrown(HistRequired, <<>>)
            ELSE Ok(currentBTCPrice, <<>>)
       ELSE convertPriceToTarget(currentBTCPrice, priceCur, targetFiat, options.fx, p.date)

\* the price of one point: the historical price, or the converted current price
priceForPoint(p, currentBTCPrice, options) ==
  LET mode == Coalesce(options.mode, "toDate")
      getHist == options.getHistoricalPrice
      targetFiat == Coalesce(options.fiat, "USD")
      priceCur == Coalesce(options.currentPriceCurrency, "USD")
  IN IF mode = "markToMarket"
       THEN IF getHist = None THEN Thrown(HistRequired, <<>>)
            ELSE Ok(Get(getHist)[p.date], <<>>)
       ELSE convertPriceToTarget(currentBTCPrice, priceCur, targetFiat, options.fx, p.date)

RECURSIVE dcaMapNoCarry(_, _, _, _, _, _, _, _)
\* mutant: the running cost and fees are not carried to the next purchase
dcaMapNoCarry(sorted, i, runningBTC, runningCost, runningFees, currentBTCPrice, options, points) ==
  IF i > Len(sorted) THEN Ok(points, <<>>)
  ELSE LET p == sorted[i]
           rowFiat == rowCostFiatExclFees(p, options).val
           rowFee == rowFeeFiat(p, options).val
           btc == runningBTC + p.amount_btc
           runningInvested == IF options.basis = "execution" THEN rowFiat
                              ELSE rowFiat + rowFee
           price == priceForPoint(p, currentBTCPrice, options)
           currentValue == btc * price.val
           point == [date |-> p.date,
                     purchaseIndex |-> i,
                     runningBTC |-> btc,
                     runningInvested |-> runningInvested,
                     avgCostBasis |-> averagePrice(runningInvested, btc),
                     priceUsed |-> price.val,
                     currentValue |-> currentValue,
                     unrealizedPnL |-> currentValue - runningInvested,
                     unrealizedPnLPercent |->
                       guardedPercent(currentValue - runningInvested, runningInvested)]
       IN IF ~price.ok THEN Thrown(price.msg, <<>>)
          ELSE dcaMapNoCarry(sorted, i + 1, btc, 0, 0, currentBTCPrice, options,
                             Append(points, point))

RECURSIVE dcaMap(_, _, _, _, _, _, _, _)
\* the map callback over the sorted purchases from index i on, threading the
\* running totals and the points made so far; a throw ends the whole call
dcaMap(sorted, i, runningBTC, runningCost, runningFees, currentBTCPrice, options, points) ==
  IF i > Len(sorted) THEN Ok(points, <<>>)
  ELSE LET p == sorted[i]
           rowFiat == rowCostFiatExclFees(p, options).val
           rowFee == rowFeeFiat(p, options).val
           btc == runningBTC + p.amount_btc
           cost == runningCost + rowFiat
           fees == runningFees + rowFee
           runningInvested == IF options.basis = "execution" THEN cost ELSE cost + fees
           price == priceForPoint(p, currentBTCPrice, options)
           currentValue == btc * price.val
           point == [date |-> p.date,
                     purchaseIndex |-> i,
                     runningBTC |-> btc,
                     runningInvested |-> runningInvested,
                     avgCostBasis |->
                       IF options.basis = "execution" THEN averagePrice(cost, btc)
                       ELSE averagePrice(cost + fees, btc),
                     priceUsed |-> price.val,
                     currentValue |-> currentValue,
                     unrealizedPnL |-> currentValue - runningInvested,
                     unrealizedPnLPercent |->
                       guardedPercent(currentValue - runningInvested, runningInvested)]
       IN IF ~price.ok THEN Thrown(price.msg, <<>>)
          ELSE dcaMap(sorted, i + 1, btc, cost, fees, currentBTCPrice, options,
                      Append(points, point))

calculateDCAPerformance(ps, currentBTCPrice, options) ==
  IF Len(ps) = 0 THEN Ok(<<>>, <<>>)
  ELSE dcaMap(SortByDate(ps), 1, 0, 0, 0, currentBTCPrice, options, <<>>)

-----------------------------------------------------------------------------
(* The performance series of the chart component (PortfolioChart).  Its    *)
(* props are kept in one record: the fiat and fx of currencyOptions, with  *)
(* currentPriceCurrency and selectedCurrency beside them.                  *)

\* q * k and q - k for a quotient q and a number k
QuotientTimes(q, k) == JsDiv(q.n * k, q.d)

QuotientMinus(q, k) == JsDiv(q.n - k * q.d, q.d)

\* (q / k) * 100, 0 unless k > 0
QuotientPercent(q, k) == IF k > 0 THEN JsDiv(q.n * 100, q.d * k) ELSE Zero

\* currencyOptions?.fiat ?? selectedCurrency, selectedCurrency = 'USD' by default
chartTargetFiat(props) == Coalesce(props.fiat, Coalesce(props.selectedCurrency, "USD"))

\* the current price in the target fiat: undated lookup only, and the price
\* itself when no provider or no rate is there
convertCurrentPriceToTargetCurrency(price, priceCur, props) ==
  LET fx == props.fx
      targetFiat == chartTargetFiat(props)
  IN IF priceCur = targetFiat THEN price
     ELSE IF fx = None THEN price
     ELSE LET rate == getRate(Get(fx), priceCur, targetFiat, None)
          IN IF ~TruthyNum(rate) THEN price ELSE Times(price, Get(rate))

\* toLocaleDateString('en-US', {month, day, year}): month and day of the
\* date, and its year unless more than 50 purchases are charted
dateLabel(date, count) == [monthDay |-> date, year |-> IF count > 50 THEN None ELSE Some(date)]

\* mutant: the fee is counted into the purchase price
chartPointFeeInPrice(purchase, index, count, runningBTC, runningInvested, rowCost, rowFee, currentPrice) ==
  LET priceAtBuy == IF purchase.amount_btc > 0
                      THEN JsDiv(rowCost + rowFee, purchase.amount_btc) ELSE Zero
      valueMTM == QuotientTimes(priceAtBuy, runningBTC)
      pnlMTM == QuotientMinus(valueMTM, runningInvested)
      valueToDate == runningBTC * currentPrice
      pnlToDate == valueToDate - runningInvested
  IN [date |-> dateLabel(purchase.date, count),
      fullDate |-> purchase.date,
      purchaseIndex |-> index,
      runningBTC |-> runningBTC,
      runningInvested |-> runningInvested,
      valueMTM |-> valueMTM,
      pnlMTM |-> pnlMTM,
      pnlPercentMTM |-> QuotientPercent(pnlMTM, runningInvested),
      valueToDate |-> valueToDate,
      pnlToDate |-> pnlToDate,
      pnlPercentToDate |-> guardedPercent(pnlToDate, runningInvested),
      priceAtBuy |-> priceAtBuy]

\* the point of one purchase, the running totals already updated
chartPoint(purchase, index, count, runningBTC, runningInvested, rowCost, rowFee, currentPrice) ==
  LET priceAtBuy == IF purchase.amount_btc > 0
                      THEN JsDiv(rowCost, purchase.amount_btc) ELSE Zero
      valueMTM == QuotientTimes(priceAtBuy, runningBTC)
      pnlMTM == QuotientMinus(valueMTM, runningInvested)
      valueToDate == runningBTC * currentPrice
      pnlToDate == valueToDate - runningInvested
  IN [date |-> dateLabel(purchase.date, count),
      fullDate |-> purchase.date,
      purchaseIndex |-> index,
      runningBTC |-> runningBTC,
      runningInvested |-> runningInvested,
      valueMTM |-> valueMTM,
      pnlMTM |-> pnlMTM,
      pnlPercentMTM |-> QuotientPercent(pnlMTM, runningInvested),
      valueToDate |-> valueToDate,
      pnlToDate |-> pnlToDate,
      pnlPercentToDate |-> guardedPercent(pnlToDate, runningInvested),
      priceAtBuy |-> priceAtBuy]

RECURSIVE chartMap(_, _, _, _, _, _, _)
\* the map callback over the sorted purchases from index i on; the strict
\* resolvers may throw, which ends the whole computation
chartMap(sorted, i, runningBTC, runningInvested, currentBTCPrice, props, points) ==
  IF i > Len(sorted) THEN Ok(points, <<>>)
  ELSE LET purchase == sorted[i]
           rowCost == strictRowCostFiatExclFees(purchase, props)
           rowFee == strictRowFeeFiat(purchase, props)
           btc == runningBTC + purchase.amount_btc
           invested == runningInvested + rowCost.val + rowFee.val
           currentPrice ==
             convertCurrentPriceToTargetCurrency(
               currentBTCPrice, Coalesce(props.currentPriceCurrency, "USD"), props)
       IN IF ~rowCost.ok THEN Thrown(rowCost.msg, <<>>)
          ELSE IF ~rowFee.ok THEN Thrown(rowFee.msg, <<>>)
          ELSE chartMap(sorted, i + 1, btc, invested, currentBTCPrice, props,
                        Append(points,
                               chartPoint(purchase, i, Len(sorted), btc, invested,
                                          rowCost.val, rowFee.val, currentPrice)))

calculateComprehensivePerformance(ps, currentBTCPrice, props) ==
  chartMap(SortByDate(ps), 1, 0, 0, currentBTCPrice, props, <<>>)

-----------------------------------------------------------------------------
(* detectCurrenciesInPurchases *)

\* p[f], undefined when the record has no such property
Prop(p, f) == IF f \in DOMAIN p THEN p[f] ELSE NoStr

\* the known cryptocurrencies, excluded from the result
cryptoCurrencies == {"BTC", "Bitcoin", "ETH", "Ethereum", "USDC", "USDT", "Tether"}

\* the strings met in the currency fields, in the order of localeCompare
Collation ==
  <<"Bitcoin", "BTC", "CHF", "ETH", "Ethereum", "EUR", "GBP", "Tether", "USD",
    "USDC", "USDT">>

\* a.localeCompare(b) < 0
localeBefore(a, b) ==
  \E i, j \in 1..Len(Collation) : Collation[i] = a /\ Collation[j] = b /\ i < j

\* mutant: the codes are compared alphabetically, USD like any other
detectBeforeAlphabetical(a, b) == localeBefore(a, b)

\* the comparator of the final sort is negative: USD first, then alphabetical
detectBefore(a, b) ==
  IF a = "USD" THEN TRUE
  ELSE IF b = "USD" THEN FALSE
  ELSE localeBefore(a, b)

\* mutant: only a positive price_usd brings USD in
legacyUsdPriceOnly(p) == p.price_usd > 0

\* p.price_usd > 0 || (p.fee_usd && p.fee_usd > 0)
legacyUsd(p) == p.price_usd > 0 \/ (TruthyNum(p.fee_usd) /\ Get(p.fee_usd) > 0)

\* a currency field is added when it is truthy and no known cryptocurrency
detectKeeps(c) == TruthyStr(c) /\ c \notin cryptoCurrencies

\* the values one purchase adds to the set, in the order it adds them
detectAdds(p) ==
  SelectSeq(<<Prop(p, "fiat_currency"), Prop(p, "currency_sent"),
              Prop(p, "currency_received"), Prop(p, "fee_currency")>>, detectKeeps)
    \o (IF legacyUsd(p) THEN <<"USD">> ELSE <<>>)

RECURSIVE detectAddsAll(_)
\* every value added by the forEach over the purchases, in order
detectAddsAll(ps) ==
  IF ps = <<>> THEN <<>> ELSE detectAdds(Head(ps)) \o detectAddsAll(Tail(ps))

RECURSIVE detectInsert(_, _)
\* c goes before the first element it is to precede
detectInsert(s, c) ==
  IF s = <<>> THEN <<c>>
  ELSE IF detectBefore(c, Head(s)) THEN <<c>> \o s
  ELSE <<Head(s)>> \o detectInsert(Tail(s), c)

RECURSIVE detectSort(_)
\* Array.prototype.sort with the comparator above
detectSort(s) ==
  IF s = <<>> THEN <<>>
  ELSE detectInsert(detectSort(SubSeq(s, 1, Len(s) - 1)), s[Len(s)])

\* the Set in insertion order, filtered twice and sorted
detectCurrenciesInPurchases(ps) ==
  detectSort(SelectSeq(KeysInOrder(detectAddsAll(ps)), detectKeeps))

-----------------------------------------------------------------------------
(* Inputs explored *)

\* single rows: every cost shape with a plain fee, every fee shape with a plain cost
RowPurchases ==
  {p \in Purchases :
     \/ /\ p.fee_usd = Some(10) /\ p.fee_fiat = None
        /\ p.fee_amount = None /\ p.fee_currency = NoStr
     \/ /\ p.amount_btc = 1 /\ p.price_usd = 100
        /\ p.fiat_amount = None /\ p.price_fiat = None}

\* rows of the purchase lists: a legacy USD row, rows recorded in EUR by
\* fiat_amount and by price_fiat, a USD row, a row without fiat_currency and
\* a row that cost nothing; each with the descriptive fields it was
\* imported with
ListShapes ==
  { [amount_btc |-> 1, price_usd |-> 100, fee_usd |-> Some(10), fiat_amount |-> None,
     fiat_currency |-> NoStr, price_fiat |-> None, fee_fiat |-> None,
     fee_amount |-> None, fee_currency |-> NoStr,
     exchange |-> NoStr, description |-> NoStr, type |-> NoStr, timezone |-> NoStr,
     currency_sent |-> NoStr, transaction_hash |-> NoStr, address |-> NoStr,
     effective_price |-> None],
    [amount_btc |-> 2, price_usd |-> 100, fee_usd |-> Some(10), fiat_amount |-> Some(70),
     fiat_currency |-> "EUR", price_fiat |-> None, fee_fiat |-> Some(20),
     fee_amount |-> None, fee_currency |-> NoStr,
     exchange |-> "Kraken", description |-> NoStr, type |-> "Purchase",
     timezone |-> "Europe/Paris", currency_sent |-> "EUR",
     transaction_hash |-> "tx", address |-> NoStr, effective_price |-> Some(50)],
    [amount_btc |-> 1, price_usd |-> 200, fee_usd |-> None, fiat_amount |-> None,
     fiat_currency |-> "EUR", price_fiat |-> Some(30), fee_fiat |-> None,
     fee_amount |-> Some(40), fee_currency |-> "EUR",
     exchange |-> NoStr, description |-> "Bitstack", type |-> "Achat",
     timezone |-> "UTC", currency_sent |-> NoStr,
     transaction_hash |-> NoStr, address |-> "bc1", effective_price |-> None],
    [amount_btc |-> 2, price_usd |-> 200, fee_usd |-> Some(0), fiat_amount |-> Some(70),
     fiat_currency |-> "USD", price_fiat |-> None, fee_fiat |-> None,
     fee_amount |-> None, fee_currency |-> NoStr,
     exchange |-> "Kraken", description |-> "Bitstack", type |-> NoStr,
     timezone |-> "UTC", currency_sent |-> NoStr,
     transaction_hash |-> NoStr, address |-> NoStr, effective_price |-> Some(0)],
    [amount_btc |-> 1, price_usd |-> 100, fee_usd |-> Some(10), fiat_amount |-> Some(70),
     fiat_currency |-> NoStr, price_fiat |-> None, fee_fiat |-> None,
     fee_amount |-> Some(40), fee_currency |-> "USD",
     exchange |-> "", description |-> "Bitstack", type |-> "Achat",
     timezone |-> "Europe/Paris", currency_sent |-> "EUR",
     transaction_hash |-> NoStr, address |-> NoStr, effective_price |-> None],
    [amount_btc |-> 1, price_usd |-> 100, fee_usd |-> Some(0), fiat_amount |-> Some(0),
     fiat_currency |-> NoStr, price_fiat |-> None, fee_fiat |-> None,
     fee_amount |-> None, fee_currency |-> NoStr,
     exchange |-> "Kraken", description |-> NoStr, type |-> "Gift", timezone |-> NoStr,
     currency_sent |-> NoStr, transaction_hash |-> NoStr, address |-> NoStr,
     effective_price |-> None] }

\* every row shape on every date, the free row on the first date only and
\* the row without fiat_currency on the last only
ListPurchases ==
  {p \in {[date |-> d] @@ sh : d \in Dates, sh \in ListShapes} :
     /\ p.fiat_amount = Some(0) => p.date = 1
     /\ p.fee_currency = "USD" => p.date = 2}

PurchaseLists == UNION {[1..n -> ListPurchases] : n \in 0..MaxLen}

HistoricalPrices == {[d \in Dates |-> 300 + 100 * d]}

CurrentPrices == {500}

\* providers of the list calls: no rate at all, a dated rate on every date,
\* a dated rate on the last date only, with and without an undated rate
ListProviders ==
  {f \in Providers : f.dated[1] # None => (f.dated[2] # None /\ f.undated = None)}

OptListProviders == {None} \cup {Some(f) : f \in ListProviders}

MetricsOptions ==
  [fiat : {NoStr, "EUR"}, fx : OptListProviders,
   basis : {NoStr, "execution", "effective"},
   currentPriceCurrency : {NoStr, "EUR"}]

\* a historical-price function is supplied for mark-to-market only
DCAOptions ==
  {o \in [fiat : {NoStr, "EUR"}, fx : OptListProviders,
          basis : {NoStr, "execution", "effective"},
          currentPriceCurrency : {NoStr, "EUR"},
          mode : {NoStr, "markToMarket"},
          getHistoricalPrice : {None} \cup {Some(h) : h \in HistoricalPrices}] :
     o.getHistoricalPrice # None => o.mode = "markToMarket"}

\* props of the chart other than the purchases and the current price
ChartProps ==
  [fiat : {NoStr, "EUR"}, fx : OptListProviders,
   currentPriceCurrency : {NoStr, "EUR"},
   selectedCurrency : {NoStr, "EUR"}]

NoArgs == [none |-> TRUE]

-----------------------------------------------------------------------------
(* Specification of the aggregate calls: a purchase list is loaded, then   *)
(* one call of the calculation library is made on it and its outcome kept  *)

Init ==
  /\ purchases \in PurchaseLists
  /\ op = "none"
  /\ args = NoArgs
  /\ out = Ok(0, <<>>)

\* mutant: the caller's array itself is sorted
inputSortedInPlace(ps) == SortByDate(ps)

\* the caller's array after [...purchases].sort(...) or .slice().sort(...):
\* the sort works in place on the copy, the array copied is left as it was
inputAfterSort(ps) == ps

CallMetrics ==
  /\ op = "none"
  /\ \E price \in CurrentPrices, o \in MetricsOptions :
       /\ args' = [currentBTCPrice |-> price, options |-> o]
       /\ out' = calculatePortfolioMetrics(purchases, price, o)
  /\ op' = "calculatePortfolioMetrics"
  /\ purchases' = inputAfterSort(purchases)

CallDCA ==
  /\ op = "none"
  /\ \E price \in CurrentPrices, o \in DCAOptions :
       /\ args' = [currentBTCPrice |-> price, options |-> o]
       /\ out' = calculateDCAPerformance(purchases, price, o)
  /\ op' = "calculateDCAPerformance"
  /\ purchases' = inputAfterSort(purchases)

\* the chart renders: its performance series is computed from its props
CallChart ==
  /\ op = "none"
  /\ \E price \in CurrentPrices, o \in ChartProps :
       /\ args' = [currentBTCPrice |-> price, options |-> o]
       /\ out' = calculateComprehensivePerformance(purchases, price, o)
  /\ op' = "calculateComprehensivePerformance"
  /\ purchases' = inputAfterSort(purchases)

CallDetect ==
  /\ op = "none"
  /\ args' = NoArgs
  /\ out' = Ok(detectCurrenciesInPurchases(purchases), <<>>)
  /\ op' = "detectCurrenciesInPurchases"
  /\ UNCHANGED purchases

Next == CallMetrics \/ CallDCA \/ CallChart \/ CallDetect

Spec == Init /\ [][Next]_vars

-----------------------------------------------------------------------------
(* Specification of the single-row calls: the resolvers and the price      *)
(* conversion applied to one purchase                                      *)

RowInit ==
  /\ purchases \in {<<p>> : p \in RowPurchases}
  /\ op = "none"
  /\ args = NoArgs
  /\ out = Ok(0, <<>>)

CallStrictCost ==
  /\ op = "none"
  /\ \E o \in CurrencyOptions :
       /\ args' = [options |-> o]
       /\ out' = strictRowCostFiatExclFees(purchases[1], o)
  /\ op' = "strictRowCostFiatExclFees"
  /\ UNCHANGED purchases

CallStrictFee ==
  /\ op = "none"
  /\ \E o \in CurrencyOptions :
       /\ args' = [options |-> o]
       /\ out' = strictRowFeeFiat(purchases[1], o)
  /\ op' = "strictRowFeeFiat"
  /\ UNCHANGED purchases

CallRowCost ==
  /\ op = "none"
  /\ \E o \in CurrencyOptions :
       /\ args' = [options |-> o]
       /\ out' = rowCostFiatExclFees(purchases[1], o)
  /\ op' = "rowCostFiatExclFees"
  /\ UNCHANGED purchases

CallRowFee ==
  /\ op = "none"
  /\ \E o \in CurrencyOptions :
       /\ args' = [options |-> o]
       /\ out' = rowFeeFiat(purchases[1], o)
  /\ op' = "rowFeeFiat"
  /\ UNCHANGED purchases

CallConvertPrice ==
  /\ op = "none"
  /\ \E price \in CurrentPrices, priceCur \in Currencies, o \in CurrencyOptions :
       /\ args' = [price |-> price, priceCur |-> priceCur, options |-> o]
       /\ out' = convertPriceToTarget(price, priceCur, Coalesce(o.fiat, "USD"), o.fx,
                                       purchases[1].date)
  /\ op' = "convertPriceToTarget"
  /\ UNCHANGED purchases

RowNext ==
  CallStrictCost \/ CallStrictFee \/ CallRowCost \/ CallRowFee \/ CallConvertPrice

SpecRow == RowInit /\ [][RowNext]_vars

-----------------------------------------------------------------------------
(* Specification of the currency detection: purchases as imported from     *)
(* several sources, with crypto tickers among their currency fields        *)

\* a legacy row, rows in EUR, CHF, USD and GBP naming cryptocurrencies in
\* other fields, a row naming nothing and rows naming cryptocurrencies only
DetectShapes ==
  { [price_usd |-> 100, fee_usd |-> None, fiat_currency |-> NoStr,
     currency_sent |-> NoStr, currency_received |-> NoStr, fee_currency |-> NoStr],
    [price_usd |-> 0, fee_usd |-> None, fiat_currency |-> "EUR",
     currency_sent |-> "EUR", currency_received |-> "BTC", fee_currency |-> "EUR"],
    [price_usd |-> 0, fee_usd |-> Some(10), fiat_currency |-> NoStr,
     currency_sent |-> "CHF", currency_received |-> "Bitcoin", fee_currency |-> "BTC"],
    [price_usd |-> 0, fee_usd |-> None, fiat_currency |-> "USD",
     currency_sent |-> "USDT", currency_received |-> "BTC", fee_currency |-> ""],
    [price_usd |-> 0, fee_usd |-> Some(0), fiat_currency |-> "GBP",
     currency_sent |-> NoStr, currency_received |-> "ETH", fee_currency |-> "CHF"],
    [price_usd |-> 0, fee_usd |-> None, fiat_currency |-> NoStr,
     currency_sent |-> NoStr, currency_received |-> NoStr, fee_currency |-> NoStr],
    [price_usd |-> 0, fee_usd |-> None, fiat_currency |-> "Tether",
     currency_sent |-> "USDC", currency_received |-> "Ethereum", fee_currency |-> "ETH"],
    [price_usd |-> 0, fee_usd |-> Some(10), fiat_currency |-> NoStr,
     currency_sent |-> NoStr, currency_received |-> NoStr, fee_currency |-> NoStr] }

DetectPurchases == {[date |-> 1, amount_btc |-> 1] @@ sh : sh \in DetectShapes}

DetectLists == UNION {[1..n -> DetectPurchases] : n \in 0..MaxLen}

DetectInit ==
  /\ purchases \in DetectLists
  /\ op = "none"
  /\ args = NoArgs
  /\ out = Ok(0, <<>>)

DetectNext == CallDetect

SpecDetect == DetectInit /\ [][DetectNext]_vars

-----------------------------------------------------------------------------
(* Specification of a repeated call: after a call of a calculator the same *)
(* call is made once more, on the same purchases with the same arguments;  *)
(* the result of the first call is kept beside the arguments               *)

\* mutant: the running totals live on from the call before
runningCarriedOver(previous) ==
  IF previous.ok /\ Len(previous.val) > 0
    THEN [btc |-> previous.val[Len(previous.val)].runningBTC,
          cost |-> previous.val[Len(previous.val)].runningInvested, fees |-> 0]
    ELSE [btc |-> 0, cost |-> 0, fees |-> 0]

\* let runningBTC = 0, runningCostFiatExclFees = 0, runningFeesFiat = 0: the
\* totals are locals of the call, whatever call came before
runningAtEntry(previous) == [btc |-> 0, cost |-> 0, fees |-> 0]

\* the call named name made after a call that returned previous
callAfter(previous, name, ps, currentBTCPrice, options) ==
  IF name = "calculatePortfolioMetrics"
    THEN calculatePortfolioMetrics(ps, currentBTCPrice, options)
  ELSE IF Len(ps) = 0 THEN Ok(<<>>, <<>>)
  ELSE LET t == runningAtEntry(previous)
       IN dcaMap(SortByDate(ps), 1, t.btc, t.cost, t.fees, currentBTCPrice, options, <<>>)

CallAgain ==
  /\ op \in {"calculatePortfolioMetrics", "calculateDCAPerformance"}
  /\ "first" \notin DOMAIN args
  /\ args' = [first |-> out] @@ args
  /\ out' = callAfter(out, op, purchases, args.currentBTCPrice, args.options)
  /\ purchases' = inputAfterSort(purchases)
  /\ UNCHANGED op

TwiceNext == CallMetrics \/ CallDCA \/ CallAgain

SpecTwice == Init /\ [][TwiceNext]_vars

-----------------------------------------------------------------------------
(* What the claims speak of *)

\* the purchase and the options of a single-row call
Row == purchases[1]

Target == Coalesce(args.options.fiat, "USD")

Positive(o) == o # None /\ Get(o) > 0

\* source amount and currency of the cost by the priority rules of section 4.1
CostSource(p, target) ==
  IF Positive(p.fiat_amount)
    THEN [amount |-> Get(p.fiat_amount),
          cur |-> IF p.fiat_currency # NoStr THEN p.fiat_currency ELSE target]
  ELSE IF Positive(p.price_fiat) /\ p.fiat_currency # NoStr
    THEN [amount |-> p.amount_btc * Get(p.price_fiat), cur |-> p.fiat_currency]
  ELSE [amount |-> p.amount_btc * p.price_usd, cur |-> "USD"]

\* source amount and currency of the fee by the priority of section 4.1
FeeSource(p) ==
  IF Positive(p.fee_fiat) /\ p.fiat_currency # NoStr
    THEN [amount |-> Get(p.fee_fiat), cur |-> p.fiat_currency]
  ELSE IF Positive(p.fee_amount) /\ p.fee_currency # NoStr
    THEN [amount |-> Get(p.fee_amount), cur |-> p.fee_currency]
  ELSE [amount |-> IF p.fee_usd = None THEN 0 ELSE Get(p.fee_usd), cur |-> "USD"]

\* the answer of the provider to a recorded getRate call
Answer(c) == getRate(Get(args.options.fx), c.from, c.to, c.date)

\* the outcome res was computed from the source src and from no other
FromSource(res, src) ==
  /\ (res.ok /\ res.calls = <<>>) => (src.cur = Target /\ res.val = src.amount)
  /\ (res.ok /\ res.calls # <<>>) =>
       /\ \A i \in 1..Len(res.calls) : res.calls[i].from = src.cur
       /\ res.val = Times(src.amount, Get(Answer(res.calls[Len(res.calls)])))
  /\ ~res.ok => res.msg.from = src.cur

\* the source of the strict call the state holds
StrictSource ==
  IF op = "strictRowCostFiatExclFees" THEN CostSource(Row, Target)
  ELSE IF op = "strictRowFeeFiat" THEN FeeSource(Row)
  ELSE [amount |-> args.price, cur |-> args.priceCur]

DatedCall(from) == [from |-> from, to |-> Target, date |-> Some(Row.date)]

UndatedCall(from) == [from |-> from, to |-> Target, date |-> None]

\* neither the dated nor the undated lookup of the pair yields a rate
NoRate(from) ==
  \/ args.options.fx = None
  \/ Answer(DatedCall(from)) = None /\ Answer(UndatedCall(from)) = None

-----------------------------------------------------------------------------
(* C3 *)

\* C3: the strict cost resolver uses the first applicable rule: fiat_amount in
\* fiat_currency (unconverted when fiat_currency is absent), else
\* amount_btc * price_fiat in fiat_currency, else amount_btc * price_usd in USD;
\* a lower rule is never used when a higher one applies.
C3_StrictCostFirstRule ==
  op = "strictRowCostFiatExclFees" => FromSource(out, CostSource(Row, Target))

\* rule 1 was used although rule 2 applies as well, and the amount was converted
C3_Witness ==
  /\ op = "strictRowCostFiatExclFees"
  /\ Positive(Row.fiat_amount) /\ Positive(Row.price_fiat)
  /\ Row.fiat_currency = "EUR" /\ Target = "USD"
  /\ out.ok /\ out.val = 77

-----------------------------------------------------------------------------
(* C5 *)

\* C5: the strict fee resolver uses the first applicable source: fee_fiat in
\* fiat_currency, else fee_amount in fee_currency, else fee_usd in USD, 0 when
\* fee_usd is absent.
C5_StrictFeeFirstSource ==
  op = "strictRowFeeFiat" => FromSource(out, FeeSource(Row))

\* fee_fiat was used although fee_amount applies as well
C5_Witness ==
  /\ op = "strictRowFeeFiat"
  /\ Positive(Row.fee_fiat) /\ Row.fiat_currency = "EUR"
  /\ Positive(Row.fee_amount) /\ Row.fee_currency = "USD"
  /\ Target = "EUR"
  /\ out.ok /\ out.val = 20

-----------------------------------------------------------------------------
(* C7 *)

ExamplePurchase ==
  [date |-> 1, amount_btc |-> 1, price_usd |-> 100, fee_usd |-> None,
   fiat_amount |-> Some(420), fiat_currency |-> "EUR", price_fiat |-> None,
   fee_fiat |-> None, fee_amount |-> None, fee_currency |-> NoStr]

ExampleOptions ==
  [fiat |-> "USD",
   fx |-> Some([dated |-> [d \in Dates |-> Some(11)], undated |-> None])]

\* C7: in the strict resolvers a source in the target currency is returned
\* unchanged without any lookup; otherwise the result is amount * rate, the
\* rate being the dated one when present and the undated one only when the
\* dated lookup is absent.  fiat_amount 42 EUR at rate 1.1 gives 46.2 USD.
C7_StrictConversion ==
  /\ op \in {"strictRowCostFiatExclFees", "strictRowFeeFiat"} =>
       LET src == StrictSource
       IN /\ src.cur = Target => out = Ok(src.amount, <<>>)
          /\ (src.cur # Target /\ out.ok) =>
               LET dated == Answer(DatedCall(src.cur))
                   undated == Answer(UndatedCall(src.cur))
               IN IF dated # None
                    THEN out = Ok(Times(src.amount, Get(dated)), <<DatedCall(src.cur)>>)
                    ELSE out = Ok(Times(src.amount, Get(undated)),
                                  <<DatedCall(src.cur), UndatedCall(src.cur)>>)
  /\ strictRowCostFiatExclFees(ExamplePurchase, ExampleOptions).val = 462

\* a conversion by the dated rate while an undated rate exists as well
C7_Witness ==
  /\ op = "strictRowFeeFiat"
  /\ StrictSource.cur # Target
  /\ args.options.fx # None
  /\ Answer(DatedCall(StrictSource.cur)) # None
  /\ Answer(UndatedCall(StrictSource.cur)) # None
  /\ out.ok /\ Len(out.calls) = 1

-----------------------------------------------------------------------------
(* C8 *)

-----------------------------------------------------------------------------
(* C4 and C6 *)

\* C4: when the strict resolver yields a cost (no conversion is needed or the
\* needed rate is available), the per-row cost of the aggregate path equals
\* that cost, the one the priority rules of section 4.1 give.
C4_AggregateCostIsStrictCost ==
  op = "rowCostFiatExclFees" =>
    LET strict == strictRowCostFiatExclFees(Row, args.options)
    IN strict.ok => out.val = strict.val

\* C6: when the strict resolver yields a fee, the per-row fee of the aggregate
\* path follows the same priority and equals that fee.
C6_AggregateFeeIsStrictFee ==
  op = "rowFeeFiat" =>
    LET strict == strictRowFeeFiat(Row, args.options)
    IN strict.ok => out.val = strict.val

-----------------------------------------------------------------------------
(* C1 and C2 *)

\* the rate the lookup policy gives for a pair on a date: dated, else undated
RateFor(fx, from, to, date) ==
  IF fx = None THEN None
  ELSE IF getRate(Get(fx), from, to, Some(date)) # None
    THEN getRate(Get(fx), from, to, Some(date))
  ELSE getRate(Get(fx), from, to, None)

\* what a row contributes: its source converted, or the fallback when the
\* rate of its source currency cannot be resolved
Contribution(src, p, options, fallback) ==
  LET target == Coalesce(options.fiat, "USD")
      rate == RateFor(options.fx, src.cur, target, p.date)
  IN IF src.cur = target THEN src.amount
     ELSE IF rate = None THEN fallback
     ELSE Times(src.amount, Get(rate))

\* C1: calculatePortfolioMetrics returns a snapshot for every purchase list,
\* target, price currency and provider; a row whose rate cannot be resolved
\* contributes amount_btc * price_usd to the cost and fee_usd to the fees, every
\* other row its resolved cost and fee.
C1_MetricsNeverRaise ==
  op = "calculatePortfolioMetrics" =>
    /\ out.ok
    /\ out.val.totalFiatAmount =
         SumSeq([i \in 1..Len(purchases) |->
                  Contribution(CostSource(purchases[i], Target), purchases[i],
                               args.options,
                               purchases[i].amount_btc * purchases[i].price_usd)])
    /\ out.val.totalFees =
         SumSeq([i \in 1..Len(purchases) |->
                  Contribution(FeeSource(purchases[i]), purchases[i], args.options,
                               num(purchases[i].fee_usd, 0))])

\* C2: when the currency of the current price differs from the target and no
\* rate resolves, calculatePortfolioMetrics does not raise and values the
\* holdings at the unconverted price.
C2_UnconvertedCurrentPrice ==
  (/\ op = "calculatePortfolioMetrics"
   /\ Len(purchases) > 0
   /\ Coalesce(args.options.currentPriceCurrency, "USD") # Target
   /\ RateFor(args.options.fx, Coalesce(args.options.currentPriceCurrency, "USD"),
              Target, SortByDate(purchases)[Len(purchases)].date) = None) =>
     /\ out.ok
     /\ out.val.currentValue =
          SumSeq([i \in 1..Len(purchases) |-> purchases[i].amount_btc])
            * args.currentBTCPrice

-----------------------------------------------------------------------------
(* C9 *)

MarkToMarketWithoutHistory ==
  /\ op = "calculateDCAPerformance"
  /\ args.options.mode = "markToMarket"
  /\ args.options.getHistoricalPrice = None

\* C9 as stated: mark-to-market without getHistoricalPrice signals a
\* configuration error and returns no sequence, for every purchase list.
C9_MarkToMarketNeedsHistory ==
  MarkToMarketWithoutHistory => (~out.ok /\ out.msg = HistRequired)

\* C9 amended: mark-to-market without getHistoricalPrice signals a
\* configuration error and returns no sequence for every non-empty purchase
\* list; for the empty list the call returns the empty sequence.
C9_MarkToMarketNeedsHistoryNonEmpty ==
  MarkToMarketWithoutHistory =>
    IF Len(purchases) > 0 THEN ~out.ok /\ out.msg = HistRequired
    ELSE out = Ok(<<>>, <<>>)

\* two purchases, mark-to-market, no historical prices: the call failed
C9_Witness ==
  /\ MarkToMarketWithoutHistory
  /\ Len(purchases) = 2
  /\ ~out.ok

-----------------------------------------------------------------------------
(* C10 *)

\* C10: runningBTC and runningInvested never decrease from a point of the
\* returned sequence to the next.
C10_RunningTotalsMonotonic ==
  (op = "calculateDCAPerformance" /\ out.ok) =>
    \A i \in 1..(Len(out.val) - 1) :
      /\ out.val[i].runningBTC <= out.val[i + 1].runningBTC
      /\ out.val[i].runningInvested <= out.val[i + 1].runningInvested

\* two points, the second row larger in both totals although its cost fell
\* back to the USD basis for want of a provider
C10_Witness ==
  /\ op = "calculateDCAPerformance" /\ out.ok
  /\ Len(out.val) = 2
  /\ args.options.fx = None /\ Target = "EUR"
  /\ \E i \in 1..2 : purchases[i].fiat_currency = "USD"
  /\ out.val[1].runningInvested < out.val[2].runningInvested
  /\ out.val[1].runningBTC < out.val[2].runningBTC

-----------------------------------------------------------------------------
(* C11 *)

ToDateCall ==
  /\ op = "calculateDCAPerformance"
  /\ args.options.mode # "markToMarket"

\* C11 as stated: in to-date mode every point of one returned sequence carries
\* the same priceUsed, and each point's currentValue is its runningBTC times
\* that single price, whatever the provider answers for different dates.
C11_SinglePriceToDate ==
  (ToDateCall /\ out.ok) =>
    \A i \in 1..Len(out.val) :
      /\ out.val[i].priceUsed = out.val[1].priceUsed
      /\ out.val[i].currentValue = out.val[i].runningBTC * out.val[1].priceUsed

-----------------------------------------------------------------------------
(* C12 *)

\* the purchase lists obtained by shuffling the loaded one
Shuffles ==
  {[i \in 1..Len(purchases) |-> purchases[f[i]]] :
     f \in Permutations(1..Len(purchases))}

DistinctDates ==
  \A i, j \in 1..Len(purchases) : purchases[i].date = purchases[j].date => i = j

SameMetricsShuffled ==
  \A q \in Shuffles :
    calculatePortfolioMetrics(q, args.currentBTCPrice, args.options) = out

SameDCAShuffled ==
  \A q \in Shuffles :
    calculateDCAPerformance(q, args.currentBTCPrice, args.options) = out

\* C12 as stated: for every purchase list and every permutation of it,
\* calculatePortfolioMetrics returns the same snapshot (every field) and
\* calculateDCAPerformance returns the same sequence of points.
C12_OrderIndependent ==
  /\ op = "calculatePortfolioMetrics" => SameMetricsShuffled
  /\ op = "calculateDCAPerformance" => SameDCAShuffled

\* C12 amended: for every purchase list whose dates are pairwise distinct and
\* every permutation of it, calculatePortfolioMetrics returns the same
\* snapshot (every field) and calculateDCAPerformance returns the same
\* sequence of points.
C12_OrderIndependentDistinctDates ==
  DistinctDates =>
    /\ op = "calculatePortfolioMetrics" => SameMetricsShuffled
    /\ op = "calculateDCAPerformance" => SameDCAShuffled

\* a returned two-point sequence for two different rows given latest first
C12_Witness ==
  /\ op = "calculateDCAPerformance" /\ out.ok
  /\ Len(purchases) = 2
  /\ purchases[1].date > purchases[2].date
  /\ purchases[1].amount_btc # purchases[2].amount_btc
  /\ out.val[1].runningBTC = purchases[2].amount_btc

-----------------------------------------------------------------------------
(* C13 *)

\* every purchase's cost and fee resolve, by section 4.1, in the target fiat
AllInTarget ==
  \A i \in 1..Len(purchases) :
    /\ CostSource(purchases[i], Target).cur = Target
    /\ FeeSource(purchases[i]).cur = Target

\* a provider whose getRate always returns 1
IdentityFx == Some([dated |-> [d \in Dates |-> Some(10)], undated |-> Some(10)])

WithIdentityFx ==
  IF op = "calculatePortfolioMetrics"
    THEN calculatePortfolioMetrics(purchases, args.currentBTCPrice,
                                   [args.options EXCEPT !.fx = IdentityFx])
    ELSE calculateDCAPerformance(purchases, args.currentBTCPrice,
                                 [args.options EXCEPT !.fx = IdentityFx])

\* C13 as stated: when every purchase's resolved cost and fee currency is the
\* target fiat, a call of calculatePortfolioMetrics or calculateDCAPerformance
\* with no FX provider does not raise and returns exactly what the call with
\* a provider whose getRate always returns 1 returns.
C13_SameCurrencyNeedsNoProvider ==
  (/\ op \in {"calculatePortfolioMetrics", "calculateDCAPerformance"}
   /\ args.options.fx = None
   /\ AllInTarget) =>
     /\ out.ok
     /\ out = WithIdentityFx

-----------------------------------------------------------------------------
(* C14 *)

\* C14: for an empty purchase list calculatePortfolioMetrics returns, for
\* every current price and every options value, the zero snapshot: every
\* numeric field is 0 (never NaN), both purchase dates are empty, the three
\* breakdowns are empty maps, and primaryFiatCurrency and targetFiat both
\* equal the requested target fiat.
C14_EmptyPortfolioZeroSnapshot ==
  (op = "calculatePortfolioMetrics" /\ Len(purchases) = 0) =>
    /\ out.ok
    /\ \A f \in {"totalBTC", "totalInvested", "currentValue", "unrealizedPnL",
                 "totalFees", "purchaseCount", "totalFiatAmount"} : out.val[f] = 0
    /\ \A f \in {"averageCostBasis", "unrealizedPnLPercent", "averageEffectivePrice",
                 "feeAsPercentOfInvestment", "averageExecutionPrice",
                 "averageEffectiveCostBasis"} : out.val[f] = Zero
    /\ out.val.largestPurchase.amount = 0 /\ out.val.largestPurchase.price = 0
    /\ out.val.smallestPurchase.amount = 0 /\ out.val.smallestPurchase.price = 0
    /\ out.val.largestPurchaseBTC.amountBTC = 0
    /\ out.val.smallestPurchaseBTC.amountBTC = 0
    /\ out.val.largestPurchaseFiat.amountFiat = 0
    /\ out.val.smallestPurchaseFiat.amountFiat = 0
    /\ out.val.firstPurchaseDate = None /\ out.val.lastPurchaseDate = None
    /\ DOMAIN out.val.exchangeBreakdown = {}
    /\ DOMAIN out.val.transactionTypeBreakdown = {}
    /\ DOMAIN out.val.currencyBreakdown = {}
    /\ out.val.primaryFiatCurrency = Target
    /\ out.val.targetFiat = Target

\* the empty portfolio valued in EUR from a USD price without a provider
C14_Witness ==
  /\ op = "calculatePortfolioMetrics" /\ Len(purchases) = 0
  /\ Target = "EUR"
  /\ Coalesce(args.options.currentPriceCurrency, "USD") = "USD"
  /\ args.options.fx = None
  /\ out.ok

-----------------------------------------------------------------------------
(* C15 *)

\* the sum of the resolved cost (excluding fees) of every loaded purchase
TotalCost ==
  SumSeq([i \in 1..Len(purchases) |->
            rowCostFiatExclFees(purchases[i], args.options).val])

\* the sum of the resolved fee of every loaded purchase
TotalFees ==
  SumSeq([i \in 1..Len(purchases) |-> rowFeeFiat(purchases[i], args.options).val])

\* C15: in calculatePortfolioMetrics totalInvested is the total cost excluding
\* fees plus the total fees when basis is effective or unspecified, and the
\* total cost excluding fees alone when basis is execution; totalFees is the
\* sum of the resolved per-row fees under either basis.
C15_BasisSelectsInvested ==
  (op = "calculatePortfolioMetrics" /\ out.ok) =>
    /\ args.options.basis \in {"effective", NoStr} =>
         out.val.totalInvested = TotalCost + TotalFees
    /\ args.options.basis = "execution" => out.val.totalInvested = TotalCost
    /\ out.val.totalFees = TotalFees

\* execution basis on purchases that paid fees: the fees are left out of
\* totalInvested and still reported in totalFees
C15_Witness ==
  /\ op = "calculatePortfolioMetrics" /\ out.ok
  /\ args.options.basis = "execution"
  /\ Len(purchases) = 2
  /\ out.val.totalFees > 0
  /\ out.val.totalInvested = TotalCost
  /\ out.val.totalInvested < TotalCost + TotalFees

-----------------------------------------------------------------------------
(* C16 *)

\* the quotient q is the finite number a / b
IsQuotient(q, a, b) == q.d > 0 /\ q.n * b = a * q.d

TotalBTC == SumSeq([i \in 1..Len(purchases) |-> purchases[i].amount_btc])

\* C16: in calculatePortfolioMetrics averageCostBasis is totalInvested /
\* totalBTC under the selected basis, and the snapshot carries, with the same
\* values whichever basis is selected, averageExecutionPrice = (cost excluding
\* fees) / totalBTC and averageEffectiveCostBasis = (cost + fees) / totalBTC.
C16_AveragesFollowBasis ==
  (op = "calculatePortfolioMetrics" /\ out.ok) =>
    /\ IsQuotient(out.val.averageCostBasis, out.val.totalInvested, TotalBTC)
    /\ IsQuotient(out.val.averageExecutionPrice, TotalCost, TotalBTC)
    /\ IsQuotient(out.val.averageEffectiveCostBasis, TotalCost + TotalFees, TotalBTC)

\* execution basis with fees paid: the selected average is the execution
\* price, a fraction, and the effective cost basis beside it is larger
C16_Witness ==
  /\ op = "calculatePortfolioMetrics" /\ out.ok
  /\ args.options.basis = "execution"
  /\ TotalBTC = 3 /\ TotalFees > 0
  /\ out.val.averageCostBasis = out.val.averageExecutionPrice
  /\ out.val.averageCostBasis.d = 3
  /\ out.val.averageEffectiveCostBasis # out.val.averageExecutionPrice

-----------------------------------------------------------------------------
(* C17 *)

\* q is a finite number, and it is 0 when its denominator den is 0
Guarded(q, den) == q.d > 0 /\ (den = 0 => q = Zero)

SnapshotGuarded ==
  LET m == out.val
  IN /\ m.unrealizedPnL = m.currentValue - m.totalInvested
     /\ Guarded(m.unrealizedPnLPercent, m.totalInvested)
     /\ Guarded(m.feeAsPercentOfInvestment, m.totalFiatAmount + m.totalFees)
     /\ Guarded(m.averageCostBasis, m.totalBTC)
     /\ \A k \in DOMAIN m.exchangeBreakdown :
          Guarded(m.exchangeBreakdown[k].avgPrice, m.exchangeBreakdown[k].totalBTC)

PointsGuarded ==
  \A i \in 1..Len(out.val) :
    LET pt == out.val[i]
    IN /\ pt.unrealizedPnL = pt.currentValue - pt.runningInvested
       /\ Guarded(pt.unrealizedPnLPercent, pt.runningInvested)
       /\ Guarded(pt.avgCostBasis, pt.runningBTC)

\* C17: in every snapshot and every performance point unrealized P&L is the
\* current value minus the invested amount, and every percentage and average
\* (unrealizedPnLPercent, feeAsPercentOfInvestment, averageCostBasis, the
\* per-exchange avgPrice, avgCostBasis) is 0, never NaN or an Infinity, when
\* its denominator (total or running invested, total or group BTC) is 0.
C17_PnLAndZeroGuards ==
  /\ (op = "calculatePortfolioMetrics" /\ out.ok) => SnapshotGuarded
  /\ (op = "calculateDCAPerformance" /\ out.ok) => PointsGuarded

\* a purchase that cost nothing is worth something: the invested amount is 0,
\* the P&L is the whole current value and the percentage is 0
C17_Witness ==
  /\ op = "calculatePortfolioMetrics" /\ out.ok
  /\ Len(purchases) = 1
  /\ out.val.totalInvested = 0
  /\ out.val.currentValue > 0
  /\ out.val.unrealizedPnL = out.val.currentValue
  /\ out.val.unrealizedPnLPercent = Zero
  /\ out.val.feeAsPercentOfInvestment = Zero

-----------------------------------------------------------------------------
(* C18 *)

\* the place of the i-th loaded purchase in date order, purchases of equal
\* date keeping their input order
Rank(i) ==
  Cardinality({j \in 1..Len(purchases) :
                 \/ purchases[j].date < purchases[i].date
                 \/ purchases[j].date = purchases[i].date /\ j <= i})

\* C18: calculateDCAPerformance returns one point per input purchase, ordered
\* by purchase date ascending with purchases of equal date kept in their
\* input order; the k-th point carries purchaseIndex = k and the date of the
\* k-th purchase in that order; an empty input yields an empty sequence.
C18_OnePointPerPurchaseInDateOrder ==
  /\ (op = "calculateDCAPerformance" /\ Len(purchases) = 0) => out = Ok(<<>>, <<>>)
  /\ (op = "calculateDCAPerformance" /\ out.ok) =>
       /\ Len(out.val) = Len(purchases)
       /\ \A k \in 1..Len(out.val) : out.val[k].purchaseIndex = k
       /\ \A k \in 1..(Len(out.val) - 1) : out.val[k].date <= out.val[k + 1].date
       /\ \A i \in 1..Len(purchases) :
            /\ out.val[Rank(i)].date = purchases[i].date
            /\ out.val[Rank(i)].runningBTC =
                 purchases[i].amount_btc
                   + (IF Rank(i) = 1 THEN 0 ELSE out.val[Rank(i) - 1].runningBTC)

\* two purchases of one date, the larger given first: it is the first point
C18_Witness ==
  /\ op = "calculateDCAPerformance" /\ out.ok
  /\ Len(purchases) = 2
  /\ purchases[1].date = purchases[2].date
  /\ purchases[1].amount_btc = 2 /\ purchases[2].amount_btc = 1
  /\ out.val[1].runningBTC = 2 /\ out.val[2].runningBTC = 3
  /\ out.val[2].purchaseIndex = 2

-----------------------------------------------------------------------------
(* C19 *)

\* the loaded purchases in date order, equal dates in input order
InDateOrder ==
  [k \in 1..Len(purchases) |->
     purchases[CHOOSE i \in 1..Len(purchases) : Rank(i) = k]]

\* the sums over the first k purchases in date order
BTCUpTo(k) == SumSeq([j \in 1..k |-> InDateOrder[j].amount_btc])

CostUpTo(k) ==
  SumSeq([j \in 1..k |-> rowCostFiatExclFees(InDateOrder[j], args.options).val])

FeesUpTo(k) ==
  SumSeq([j \in 1..k |-> rowFeeFiat(InDateOrder[j], args.options).val])

\* C19: at the k-th point of calculateDCAPerformance runningBTC is the sum of
\* amount_btc of the first k purchases in date order, runningInvested is the
\* cumulative resolved cost excluding fees when basis is execution and the
\* cumulative cost plus cumulative fees otherwise, currentValue is
\* runningBTC * priceUsed, unrealizedPnL is currentValue - runningInvested,
\* and in mark-to-market mode priceUsed is getHistoricalPrice(date of that
\* purchase).
C19_RunningValues ==
  (op = "calculateDCAPerformance" /\ out.ok) =>
    \A k \in 1..Len(out.val) :
      LET pt == out.val[k]
      IN /\ pt.runningBTC = BTCUpTo(k)
         /\ pt.runningInvested =
              IF args.options.basis = "execution" THEN CostUpTo(k)
              ELSE CostUpTo(k) + FeesUpTo(k)
         /\ pt.currentValue = pt.runningBTC * pt.priceUsed
         /\ pt.unrealizedPnL = pt.currentValue - pt.runningInvested
         /\ args.options.mode = "markToMarket" =>
              pt.priceUsed = Get(args.options.getHistoricalPrice)[InDateOrder[k].date]

\* mark-to-market on the execution basis over two dates given latest first:
\* each point is valued at the historical price of its own date, and the
\* fees paid stay out of the invested amount
C19_Witness ==
  /\ op = "calculateDCAPerformance" /\ out.ok
  /\ args.options.mode = "markToMarket" /\ args.options.basis = "execution"
  /\ Len(purchases) = 2
  /\ purchases[1].date > purchases[2].date
  /\ FeesUpTo(2) > 0
  /\ out.val[1].priceUsed = 400 /\ out.val[2].priceUsed = 500
  /\ out.val[2].currentValue = BTCUpTo(2) * 500
  /\ out.val[2].runningInvested = CostUpTo(2)

-----------------------------------------------------------------------------
(* C20 *)

\* the cost of a row by the rules of section 4.1, in the target fiat
ResolvedCost(p) == Contribution(CostSource(p, Target), p, args.options, 0)

\* C20: in the chart's performance series priceAtBuy of each point is that
\* row's resolved cost excluding fees divided by its amount_btc (0 when
\* amount_btc is 0), the row's fee never being part of it, and the
\* mark-to-market value of the point is runningBTC * priceAtBuy.
C20_PriceAtBuyExcludesFee ==
  (op = "calculateComprehensivePerformance" /\ out.ok) =>
    \A k \in 1..Len(out.val) :
      LET pt == out.val[k]
          p == InDateOrder[k]
      IN /\ IF p.amount_btc = 0 THEN pt.priceAtBuy = Zero
            ELSE IsQuotient(pt.priceAtBuy, ResolvedCost(p), p.amount_btc)
         /\ IsQuotient(pt.valueMTM, pt.runningBTC * pt.priceAtBuy.n, pt.priceAtBuy.d)

\* a point whose row paid a fee and bought 2 BTC after 1 BTC was held: its
\* price is half its converted cost and values 3 BTC
C20_Witness ==
  /\ op = "calculateComprehensivePerformance" /\ out.ok
  /\ Len(purchases) = 2
  /\ InDateOrder[2].amount_btc = 2
  /\ Positive(InDateOrder[2].fee_fiat)
  /\ Target = "USD"
  /\ out.val[2].priceAtBuy = JsDiv(77, 2)
  /\ out.val[2].valueMTM = JsDiv(3 * 77, 2)
  /\ out.val[2].runningBTC = 3

-----------------------------------------------------------------------------
(* C21 *)

\* what a row adds to the invested amount under the graceful policy: its
\* resolved cost and fee, or amount_btc * price_usd and fee_usd when the rate
\* of the source currency cannot be resolved
GracefulInvested(p) ==
  Contribution(CostSource(p, Target), p, args.options, p.amount_btc * p.price_usd)
    + Contribution(FeeSource(p), p, args.options, num(p.fee_usd, 0))

\* C21 as stated: the chart's series never aborts on a row's missing FX data:
\* for every purchase list and every provider it returns one point per
\* purchase, an affected row falling back to amount_btc * price_usd for its
\* cost and to fee_usd for its fee.
C21_ChartNeverAborts ==
  op = "calculateComprehensivePerformance" =>
    /\ out.ok
    /\ Len(out.val) = Len(purchases)
    /\ \A k \in 1..Len(out.val) :
         out.val[k].runningInvested =
           SumSeq([j \in 1..k |-> GracefulInvested(InDateOrder[j])])

-----------------------------------------------------------------------------
(* C22 *)

\* the group of a purchase: its exchange, else its description, else Unknown
GroupOf(p) ==
  IF p.exchange \notin {NoStr, ""} THEN p.exchange
  ELSE IF p.description \notin {NoStr, ""} THEN p.description
  ELSE "Unknown"

Members(k) == {i \in 1..Len(purchases) : GroupOf(purchases[i]) = k}

RECURSIVE SumOver(_, _)
\* the sum of f[x] over the x of the set S
SumOver(f, S) ==
  IF S = {} THEN 0
  ELSE LET x == CHOOSE y \in S : TRUE IN f[x] + SumOver(f, S \ {x})

RowBTC == [i \in 1..Len(purchases) |-> purchases[i].amount_btc]

RowCost ==
  [i \in 1..Len(purchases) |-> rowCostFiatExclFees(purchases[i], args.options).val]

\* C22: in calculatePortfolioMetrics every purchase is counted in exactly one
\* exchange group, keyed by exchange, else description, else "Unknown"; a
\* group's count, totalBTC and totalFiat are the number, the BTC sum and the
\* resolved-cost sum of its members and its avgPrice is totalFiat / totalBTC
\* (0 when totalBTC is 0); so the counts add up to purchaseCount and the BTC
\* and fiat sums to totalBTC and totalFiatAmount.
C22_ExchangeGroupsPartition ==
  (op = "calculatePortfolioMetrics" /\ out.ok) =>
    LET groups == out.val.exchangeBreakdown
    IN /\ DOMAIN groups = {GroupOf(purchases[i]) : i \in 1..Len(purchases)}
       /\ \A k \in DOMAIN groups :
            /\ groups[k].count = Cardinality(Members(k))
            /\ groups[k].totalBTC = SumOver(RowBTC, Members(k))
            /\ groups[k].totalFiat = SumOver(RowCost, Members(k))
            /\ IF groups[k].totalBTC = 0 THEN groups[k].avgPrice = Zero
               ELSE IsQuotient(groups[k].avgPrice, groups[k].totalFiat,
                               groups[k].totalBTC)
       /\ SumOver([k \in DOMAIN groups |-> groups[k].count], DOMAIN groups)
            = out.val.purchaseCount
       /\ SumOver([k \in DOMAIN groups |-> groups[k].totalBTC], DOMAIN groups)
            = out.val.totalBTC
       /\ SumOver([k \in DOMAIN groups |-> groups[k].totalFiat], DOMAIN groups)
            = out.val.totalFiatAmount

\* a purchase with an empty exchange and one without exchange, both described
\* as Bitstack, make one group of two beside no other
C22_Witness ==
  /\ op = "calculatePortfolioMetrics" /\ out.ok
  /\ Len(purchases) = 2
  /\ purchases[1].exchange = "" /\ purchases[2].exchange = NoStr
  /\ DOMAIN out.val.exchangeBreakdown = {"Bitstack"}
  /\ out.val.exchangeBreakdown["Bitstack"].count = 2
  /\ out.val.exchangeBreakdown["Bitstack"].totalBTC = out.val.totalBTC

-----------------------------------------------------------------------------
(* C23 *)

\* the currency of record of a purchase: fiat_currency, else currency_sent,
\* else USD
CurrencyOfRecord(p) ==
  IF p.fiat_currency \notin {NoStr, ""} THEN p.fiat_currency
  ELSE IF p.currency_sent \notin {NoStr, ""} THEN p.currency_sent
  ELSE "USD"

\* the resolved cost accumulated by the purchases recorded in currency c
AmountIn(c) ==
  SumOver(RowCost, {i \in 1..Len(purchases) : CurrencyOfRecord(purchases[i]) = c})

\* C23: for every non-empty purchase list primaryFiatCurrency is a key of
\* currencyBreakdown, the groups by currency of record, whose accumulated fiat
\* amount is at least that of every other group.
C23_PrimaryCurrencyIsLargestGroup ==
  (op = "calculatePortfolioMetrics" /\ out.ok /\ Len(purchases) > 0) =>
    LET groups == out.val.currencyBreakdown
        primary == out.val.primaryFiatCurrency
    IN /\ DOMAIN groups = {CurrencyOfRecord(purchases[i]) : i \in 1..Len(purchases)}
       /\ \A c \in DOMAIN groups : groups[c].totalAmount = AmountIn(c)
       /\ primary \in DOMAIN groups
       /\ \A c \in DOMAIN groups : groups[primary].totalAmount >= groups[c].totalAmount

\* the later purchase is recorded in another currency than the earlier one
\* and cost more: its currency is the primary one
C23_Witness ==
  /\ op = "calculatePortfolioMetrics" /\ out.ok
  /\ Len(purchases) = 2
  /\ out.val.primaryFiatCurrency = CurrencyOfRecord(InDateOrder[2])
  /\ CurrencyOfRecord(InDateOrder[1]) # CurrencyOfRecord(InDateOrder[2])
  /\ AmountIn(CurrencyOfRecord(InDateOrder[2]))
       > AmountIn(CurrencyOfRecord(InDateOrder[1]))

-----------------------------------------------------------------------------
(* C24 *)

SortedBTC == [k \in 1..Len(purchases) |-> InDateOrder[k].amount_btc]

SortedCost ==
  [k \in 1..Len(purchases) |-> rowCostFiatExclFees(InDateOrder[k], args.options).val]

\* the date of the first purchase in date order whose value in v is x
FirstDateOf(v, x) ==
  LET k == CHOOSE i \in 1..Len(v) : v[i] = x /\ \A j \in 1..(i - 1) : v[j] # x
  IN Some(InDateOrder[k].date)

\* x is the largest / the smallest value of v
IsMaxOf(x, v) == (\E i \in 1..Len(v) : v[i] = x) /\ \A i \in 1..Len(v) : v[i] <= x

IsMinOf(x, v) == (\E i \in 1..Len(v) : v[i] = x) /\ \A i \in 1..Len(v) : v[i] >= x

\* C24: for every non-empty purchase list largestPurchaseBTC and
\* smallestPurchaseBTC carry the maximum and the minimum amount_btc, and
\* largestPurchaseFiat and smallestPurchaseFiat the maximum and the minimum
\* resolved cost excluding fees, each with the date of the purchase it came
\* from; of several purchases tied for an extreme the first in date-sorted
\* order is reported.
C24_ExtremesFirstInDateOrder ==
  (op = "calculatePortfolioMetrics" /\ out.ok /\ Len(purchases) > 0) =>
    LET m == out.val
    IN /\ IsMaxOf(m.largestPurchaseBTC.amountBTC, SortedBTC)
       /\ m.largestPurchaseBTC.date = FirstDateOf(SortedBTC, m.largestPurchaseBTC.amountBTC)
       /\ IsMinOf(m.smallestPurchaseBTC.amountBTC, SortedBTC)
       /\ m.smallestPurchaseBTC.date = FirstDateOf(SortedBTC, m.smallestPurchaseBTC.amountBTC)
       /\ IsMaxOf(m.largestPurchaseFiat.amountFiat, SortedCost)
       /\ m.largestPurchaseFiat.date = FirstDateOf(SortedCost, m.largestPurchaseFiat.amountFiat)
       /\ IsMinOf(m.smallestPurchaseFiat.amountFiat, SortedCost)
       /\ m.smallestPurchaseFiat.date = FirstDateOf(SortedCost, m.smallestPurchaseFiat.amountFiat)

\* two purchases of equal BTC amount on two dates, given latest first, the
\* later one the dearer: the BTC extremes carry the earlier date, the largest
\* fiat amount the later
C24_Witness ==
  /\ op = "calculatePortfolioMetrics" /\ out.ok
  /\ Len(purchases) = 2
  /\ purchases[1].date = 2 /\ purchases[2].date = 1
  /\ purchases[1].amount_btc = purchases[2].amount_btc
  /\ out.val.largestPurchaseBTC.date = Some(1)
  /\ out.val.smallestPurchaseBTC.date = Some(1)
  /\ out.val.largestPurchaseFiat.date = Some(2)
  /\ out.val.smallestPurchaseFiat.date = Some(1)

-----------------------------------------------------------------------------
(* C25 *)

Detected == {out.val[i] : i \in 1..Len(out.val)}

\* C25: detectCurrenciesInPurchases includes USD in its result whenever some
\* purchase has price_usd > 0 or fee_usd > 0, even when no purchase sets any
\* fiat or currency field.
C25_LegacyUsdDetected ==
  (/\ op = "detectCurrenciesInPurchases"
   /\ \E i \in 1..Len(purchases) :
        purchases[i].price_usd > 0 \/ Positive(purchases[i].fee_usd)) =>
     "USD" \in Detected

\* USD is detected from a fee_usd alone: no purchase names a currency or has
\* a price_usd
C25_Witness ==
  /\ op = "detectCurrenciesInPurchases"
  /\ Len(purchases) = 2
  /\ \A i \in 1..2 :
       /\ purchases[i].price_usd = 0
       /\ \A f \in {"fiat_currency", "currency_sent", "currency_received",
                    "fee_currency"} : purchases[i][f] = NoStr
  /\ \E i \in 1..2 : Positive(purchases[i].fee_usd)
  /\ out.val = <<"USD">>

-----------------------------------------------------------------------------
(* C26 *)

\* the codes some purchase carries in one of its four currency fields
Named ==
  {Prop(purchases[i], f) :
     i \in 1..Len(purchases),
     f \in {"fiat_currency", "currency_sent", "currency_received", "fee_currency"}}

\* C26: the list returned by detectCurrenciesInPurchases holds no known
\* cryptocurrency ticker or long name, holds no code twice, holds only codes
\* that occur in fiat_currency, currency_sent, currency_received or
\* fee_currency of some purchase (or USD), and is ordered with USD first when
\* present and the other codes in alphabetical order.
C26_DetectedListWellFormed ==
  op = "detectCurrenciesInPurchases" =>
    /\ Detected \cap {"BTC", "ETH", "USDC", "USDT", "Bitcoin", "Ethereum", "Tether"} = {}
    /\ \A i, j \in 1..Len(out.val) : out.val[i] = out.val[j] => i = j
    /\ Detected \subseteq (Named \ {NoStr, ""}) \cup {"USD"}
    /\ \A i \in 2..Len(out.val) : out.val[i] # "USD"
    /\ \A i, j \in 1..Len(out.val) :
         (i < j /\ out.val[i] # "USD") => localeBefore(out.val[i], out.val[j])

\* three codes detected beside cryptocurrencies, USD ahead of CHF and GBP
C26_Witness ==
  /\ op = "detectCurrenciesInPurchases"
  /\ Len(purchases) = 2
  /\ "BTC" \in Named /\ "ETH" \in Named
  /\ out.val = <<"USD", "CHF", "GBP">>

-----------------------------------------------------------------------------
(* C27 *)

-----------------------------------------------------------------------------
(* C28 *)

-----------------------------------------------------------------------------
(* C29 *)

\* the snapshot call on the purchases and arguments the series was made from
SnapshotOfCall ==
  calculatePortfolioMetrics(purchases, args.currentBTCPrice, args.options)

\* the last point of the returned series
LastPoint == out.val[Len(out.val)]

\* the values the last point and a returned snapshot have in common
LastPointAgrees ==
  /\ LastPoint.runningBTC = SnapshotOfCall.val.totalBTC
  /\ LastPoint.runningInvested = SnapshotOfCall.val.totalInvested
  /\ LastPoint.avgCostBasis = SnapshotOfCall.val.averageCostBasis
  /\ Coalesce(args.options.mode, "toDate") # "markToMarket" =>
       /\ LastPoint.currentValue = SnapshotOfCall.val.currentValue
       /\ LastPoint.unrealizedPnL = SnapshotOfCall.val.unrealizedPnL

\* C29 as stated: for a non-empty purchase list and the same options the last
\* point of calculateDCAPerformance agrees with the snapshot of
\* calculatePortfolioMetrics: runningBTC is totalBTC, runningInvested is
\* totalInvested, avgCostBasis is averageCostBasis, and in to-date mode
\* currentValue and unrealizedPnL are the snapshot's.
C29_LastPointIsSnapshot ==
  (op = "calculateDCAPerformance" /\ out.ok /\ Len(purchases) > 0) =>
    (SnapshotOfCall.ok /\ LastPointAgrees)

-----------------------------------------------------------------------------
(* C30 *)

\* calculateDCAPerformance on the purchases, the current price and the
\* currency options of the chart, with basis effective and in to-date mode
EffectiveSeries ==
  calculateDCAPerformance(purchases, args.currentBTCPrice,
    [fiat |-> args.options.fiat, fx |-> args.options.fx, basis |-> "effective",
     currentPriceCurrency |-> args.options.currentPriceCurrency,
     mode |-> NoStr, getHistoricalPrice |-> None])

\* the current price is in the target fiat of the chart and of the library
NoPriceConversion ==
  LET priceCur == Coalesce(args.options.currentPriceCurrency, "USD")
  IN /\ priceCur = chartTargetFiat(args.options)
     /\ priceCur = Coalesce(args.options.fiat, "USD")

\* C30 as stated: for every purchase list and currency options on which the
\* chart's series does not raise, calculateComprehensivePerformance and
\* calculateDCAPerformance with basis effective have the same runningBTC and
\* the same runningInvested at every index, and the same to-date value when
\* the current price needs no conversion.
C30_ChartSeriesIsEffectiveSeries ==
  (op = "calculateComprehensivePerformance" /\ out.ok) =>
    /\ EffectiveSeries.ok
    /\ Len(EffectiveSeries.val) = Len(out.val)
    /\ \A i \in 1..Len(out.val) :
         /\ out.val[i].runningBTC = EffectiveSeries.val[i].runningBTC
         /\ out.val[i].runningInvested = EffectiveSeries.val[i].runningInvested
         /\ NoPriceConversion =>
              out.val[i].valueToDate = EffectiveSeries.val[i].currentValue

=============================================================================
